---- MODULE Spec2Model ----
(***************************************************************************)
(* ODAG link creator: the provisioning orchestrator (ODAGLinkCreator) of   *)
(* src/odag-link-creator.js and its legacy variant                         *)
(* src/odag-link-creatorold.js, run against nondeterministic remote        *)
(* services (repository service QRS, link service ODAG, engine socket).    *)
(*                                                                         *)
(* One instance serves the calls of all slots.  A call runs atomically     *)
(* from one await to the next (single-threaded event loop); an action is   *)
(* the arrival of a remote response or socket event together with the      *)
(* whole synchronous continuation it triggers.                             *)
(***************************************************************************)
EXTENDS Integers, Sequences, FiniteSets, Bags, TLC

VARIABLES
    legacy,         \* TRUE: the instance is the class of odag-link-creatorold.js
    xrfKey,         \* this.xrfKey
    authenticated,  \* this.authenticated
    call,           \* per slot: the async call's locals and position
    sess,           \* per slot: the closure state of addNavigationLinkToApp
    links           \* remote link service: the committed link resources

vars == <<legacy, xrfKey, authenticated, call, sess, links>>

(***************************************************************************)
(* Bounds                                                                  *)
(***************************************************************************)
MaxMsgs == 3        \* inbound 'message' events delivered per socket
MaxLateMsgs == 4    \* the same, for the sessions of SpecDriver

\* the slots of the calls issued on the instance (one call per slot)
Slots == DOMAIN call

(***************************************************************************)
(* Inputs                                                                  *)
(***************************************************************************)
LinkNames == {"", "Sales Detail"}
RowExprs == {"", "Sum(X)"}
SelectionIds == {"", "A"}
TemplateIds == {"", "B"}

LinkRequests ==
    [linkName : LinkNames, rowEstExpr : RowExprs,
     selectionAppId : SelectionIds, templateAppId : TemplateIds]

\* the remote repository's record of an application
RemoteApp(id) ==
    [id |-> id, name |-> IF id = "A" THEN "Sales" ELSE "Detail",
     published |-> (id = "A")]

\* HTTP status of a REST answer; 0 stands for "no response" (transport failure)
AuthStatuses == {200, 204, 401, 500, 0}
LookupAnswers ==
    {[status |-> 200, hasId |-> TRUE], [status |-> 200, hasId |-> FALSE],
     [status |-> 404, hasId |-> FALSE], [status |-> 500, hasId |-> FALSE],
     [status |-> 0, hasId |-> FALSE]}
PostAnswers ==
    [status : {201}, shape : {"nested", "flat", "both", "none"}, committed : {TRUE},
     dataMessage : {""}]
    \cup [status : {400, 500, 503}, shape : {"none"}, committed : {FALSE},
          dataMessage : {"", "remote says no"}]
    \cup [status : {401, 403, 404, 405}, shape : {"none"}, committed : {FALSE},
          dataMessage : {""}]
    \cup [status : {0}, shape : {"none"}, committed : BOOLEAN, dataMessage : {""}]
ProbeStatuses == {200, 404, 0}

\* response.data of a creation answer of the given shape for the link id
ResponseData(shape, id) ==
    CASE shape = "nested" -> [objectDef |-> [id |-> id], feedback |-> <<>>]
      [] shape = "flat" -> [id |-> id]
      [] shape = "both" -> [id |-> "request-1", objectDef |-> [id |-> id]]
      [] OTHER -> [feedback |-> <<>>]

Is2xx(status) == status >= 200 /\ status < 300

\* error.message of the error axios rejects with
AxiosMessage(status) ==
    IF status = 0 THEN <<"connect ECONNREFUSED">>
    ELSE <<"Request failed with status code ", ToString(status)>>

(***************************************************************************)
(* The anti-forgery key                                                    *)
(***************************************************************************)
\* const chars of generateXrfKey
chars ==
    <<"a", "b", "c", "d", "e", "f", "g", "h", "i", "j", "k", "l", "m",
      "n", "o", "p", "q", "r", "s", "t", "u", "v", "w", "x", "y", "z",
      "A", "B", "C", "D", "E", "F", "G", "H", "I", "J", "K", "L", "M",
      "N", "O", "P", "Q", "R", "S", "T", "U", "V", "W", "X", "Y", "Z",
      "0", "1", "2", "3", "4", "5", "6", "7", "8", "9">>

KeyLength == 16     \* for (let i = 0; i < 16; i++)

\* the values Math.floor(Math.random() * chars.length) takes in the loop
FirstPicks == [i \in 1..KeyLength |-> 0]
RandomPicks == {FirstPicks, [i \in 1..KeyLength |-> Len(chars) - i]}

GenerateXrfKey(picks) == [i \in 1..KeyLength |-> chars[picks[i] + 1]]

\* the keys a construction can produce
Keys == {GenerateXrfKey(picks) : picks \in RandomPicks}

\* mutant: the URL is built with a key generated anew
UrlKeyRotated == CHOOSE k \in Keys : k # xrfKey

\* ?xrfkey=${this.xrfKey} of a request URL
UrlKey == xrfKey

\* 'X-Qlik-Xrfkey' of this.axiosConfig.headers and of the socket's headers
HeaderKey == xrfKey

\* an outbound REST request
RestRequest(svc, method, target) ==
    [svc |-> svc, method |-> method, target |-> target,
     query |-> UrlKey, header |-> HeaderKey]

\* the upgrade request of new WebSocket(wsUrl, { headers })
SocketRequest(appId) ==
    [svc |-> "engine", method |-> "WS", target |-> appId,
     query |-> <<>>, header |-> HeaderKey]

\* the requests a call has issued so far, with their number: n more of q
Issue(reqs, q, n) == reqs (+) [x \in {q} |-> n]

(***************************************************************************)
(* The creation payload                                                    *)
(***************************************************************************)
PolicyBlocks == {"rowEstRange", "appRetentionTime", "genAppName"}

DefaultRowEstRange == <<[context |-> "User_*", lowBound |-> 1, highBound |-> 500000]>>
DefaultAppRetentionTime == <<[context |-> "User_*", minutes |-> 10080]>>
DefaultGenAppName(name) ==
    <<[context |-> "User_*",
       formatString |-> <<name, " - $(user.name) - $(=Now())">>]>>

\* const linkConfig = { ... } of createCompleteODAGLink; a block the options
\* do not carry is undefined
LinkConfig(o) ==
    [name |-> o.linkName, selectionAppId |-> o.selectionAppId,
     templateAppId |-> o.templateAppId, rowEstExpr |-> o.rowEstExpr]
    @@ [f \in PolicyBlocks \cap DOMAIN o |-> o[f]]

\* linkConfig[f] || dflt  (an array, the empty one included, is truthy)
OrDefault(lc, f, dflt) == IF f \in DOMAIN lc THEN lc[f] ELSE dflt

\* mutant: a block is taken from the caller only when all three are supplied
OdagPayloadAllOrNothing(lc) ==
    LET all == PolicyBlocks \subseteq DOMAIN lc
    IN  [name |-> lc.name, selectionApp |-> lc.selectionAppId,
         templateApp |-> lc.templateAppId, rowEstExpr |-> lc.rowEstExpr,
         properties |->
           [rowEstRange |-> IF all THEN lc.rowEstRange ELSE DefaultRowEstRange,
            appRetentionTime |-> IF all THEN lc.appRetentionTime
                                 ELSE DefaultAppRetentionTime,
            genAppName |-> IF all THEN lc.genAppName ELSE DefaultGenAppName(lc.name)]]

\* const odagPayload = { ... } of createODAGLink
OdagPayload(lc) ==
    [name |-> lc.name, selectionApp |-> lc.selectionAppId,
     templateApp |-> lc.templateAppId, rowEstExpr |-> lc.rowEstExpr,
     properties |->
       [rowEstRange |-> OrDefault(lc, "rowEstRange", DefaultRowEstRange),
        appRetentionTime |-> OrDefault(lc, "appRetentionTime", DefaultAppRetentionTime),
        genAppName |-> OrDefault(lc, "genAppName", DefaultGenAppName(lc.name))]]

(***************************************************************************)
(* Call records                                                            *)
(***************************************************************************)
NoOpts == [linkName |-> "", rowEstExpr |-> "", selectionAppId |-> "", templateAppId |-> ""]
NoValidation == [valid |-> FALSE, error |-> <<>>]
NoResult == [pending |-> TRUE]
NoPayload == [built |-> FALSE]

IdleCall ==
    [kind |-> "none", pc |-> "idle", stage |-> "top", opts |-> NoOpts,
     sel |-> NoValidation, tmpl |-> NoValidation, link |-> "",
     outcome |-> "none", result |-> NoResult,
     nAuth |-> 0, nLookup |-> 0, nPost |-> 0, nProbe |-> 0, nSock |-> 0,
     authFailed |-> FALSE, probe |-> "none", reqs |-> EmptyBag, payload |-> NoPayload,
     answered |-> 0]

NoSession ==
    [ws |-> "none", timer |-> FALSE, requestId |-> 0, requests |-> <<>>,
     appHandle |-> -2, settled |-> "none", message |-> <<>>, sent |-> <<>>,
     nMsgs |-> 0, closeCode |-> 0, elapsed |-> 0, idle |-> 0]

(***************************************************************************)
(* Orchestrator: results and catch blocks                                  *)
(***************************************************************************)
Returned(r, res) ==
    [r EXCEPT !.pc = "done", !.outcome = "returned", !.result = res]

Threw(r, msg) ==
    [r EXCEPT !.pc = "done", !.outcome = "threw", !.result = [thrown |-> msg]]

\* mutant: the catch block rethrows instead of returning a failure value
ProvisionCatchRethrow(r, msg) == Threw(r, msg)

\* catch (error) of createCompleteODAGLink: return { success: false, error }
ProvisionCatch(r, msg) == Returned(r, [success |-> FALSE, error |-> msg])

\* catch (error) of testConnection: return { success: false, error }
TestConnectionCatch(r, msg) == Returned(r, [success |-> FALSE, error |-> msg])

\* an exception leaving a callee reaches the catch of the running operation
CallerCatch(r, msg) ==
    IF r.kind = "test" THEN TestConnectionCatch(r, msg) ELSE ProvisionCatch(r, msg)

\* mutant: the template name is taken from the selection lookup
SuccessResultOneName(r) ==
    [success |-> TRUE, odagLinkId |-> r.link,
     selectionAppId |-> r.opts.selectionAppId,
     templateAppId |-> r.opts.templateAppId,
     selectionAppName |-> r.sel.name,
     templateAppName |-> r.sel.name,
     message |-> "ODAG link created and registered in Hub successfully"]

\* the value returned after a confirmed navigation leg
SuccessResult(r) ==
    LET base == [success |-> TRUE, odagLinkId |-> r.link,
                 selectionAppId |-> r.opts.selectionAppId,
                 templateAppId |-> r.opts.templateAppId,
                 selectionAppName |-> r.sel.name,
                 templateAppName |-> r.tmpl.name,
                 message |-> "ODAG link created and registered in Hub successfully"]
    IN  IF legacy
        THEN base @@ [navigationLinkMethod |-> "CreateObject"]
        ELSE base

\* catch (navError): the value returned after a failed navigation leg
PartialResult(r, navMessage) ==
    LET base == [success |-> TRUE, partial |-> TRUE, odagLinkId |-> r.link,
                 selectionAppId |-> r.opts.selectionAppId,
                 templateAppId |-> r.opts.templateAppId,
                 selectionAppName |-> r.sel.name,
                 templateAppName |-> r.tmpl.name,
                 message |-> "ODAG link created successfully. Navigation link must be added manually.",
                 navigationLinkError |-> navMessage]
    IN  IF legacy
        THEN base @@ [manualSteps |->
                 << <<"1. Open the selection app in Qlik Sense Hub">>,
                    <<"2. Go to app settings or navigation">>,
                    <<"3. Add navigation link with ID: ", r.link>>,
                    <<"4. Set link name: ", r.opts.linkName>> >>]
        ELSE base

\* the report testConnection returns when nothing propagated to its catch
TestReport ==
    [success |-> TRUE, message |-> "Connection test completed",
     qrsApi |-> "working", authentication |-> "successful"]

(***************************************************************************)
(* Orchestrator: requests going out                                        *)
(***************************************************************************)
\* the application id the lookup of a stage is about
StageAppId(r) ==
    CASE r.stage = "sel" -> r.opts.selectionAppId
      [] r.stage = "tmpl" -> r.opts.templateAppId
      [] OTHER -> "00000000-0000-0000-0000-000000000000"

\* axios.get(authUrl, this.axiosConfig) of authenticate
SendAuth(r, stage) ==
    [r EXCEPT !.pc = "authWait", !.stage = stage, !.nAuth = @ + 1,
              !.reqs = Issue(@, RestRequest("qrs", "GET", "about"), 1)]

\* mutant: the two lookups are issued together, as with Promise.all
SendLookupTogether(r, stage) ==
    IF stage = "sel"
    THEN [r EXCEPT !.pc = "lookupWait", !.stage = "sel", !.nLookup = @ + 2,
                   !.reqs = Issue(Issue(@, RestRequest("qrs", "GET", r.opts.selectionAppId), 1),
                                  RestRequest("qrs", "GET", r.opts.templateAppId), 1)]
    ELSE [r EXCEPT !.pc = "lookupWait", !.stage = stage]

\* axios.get(url, this.axiosConfig) of validateAppId
SendLookup(r, stage) ==
    LET t == [r EXCEPT !.stage = stage]
    IN  [t EXCEPT !.pc = "lookupWait", !.nLookup = @ + 1,
                  !.reqs = Issue(@, RestRequest("qrs", "GET", StageAppId(t)), 1)]

\* axios.post(url, odagPayload, this.axiosConfig) of createODAGLink
SendPost(r) ==
    [r EXCEPT !.pc = "postWait", !.stage = "create", !.nPost = @ + 1,
              !.payload = OdagPayload(LinkConfig(r.opts)),
              !.reqs = Issue(@, RestRequest("odag", "POST", "links"), 1)]

\* axios.get(url, this.axiosConfig) of testConnection
SendProbe(r) ==
    [r EXCEPT !.pc = "probeWait", !.stage = "probe", !.nProbe = @ + 1,
              !.reqs = Issue(@, RestRequest("odag", "GET", "links"), 1)]

\* mutant: ensureAuthenticated authenticates whatever the flag says
EnsureAuthenticatedAlways(a) == TRUE

\* ensureAuthenticated: TRUE when authenticate() has to be called
EnsureAuthenticated(a) == ~a

ValidateAppId(r, a, stage) ==
    IF EnsureAuthenticated(a) THEN SendAuth(r, stage) ELSE SendLookup(r, stage)

\* mutant: a request already served on this instance is answered from that
\* call's link instead of being posted again
CreateODAGLinkDeduplicated(r, a) ==
    IF \E d \in Slots : call[d].opts = r.opts /\ call[d].link # ""
    THEN LET d == CHOOSE d \in Slots : call[d].opts = r.opts /\ call[d].link # ""
         IN  [r EXCEPT !.pc = "done", !.outcome = "returned", !.link = call[d].link,
                       !.result = [success |-> TRUE, odagLinkId |-> call[d].link]]
    ELSE IF ~a THEN SendAuth(r, "create") ELSE SendPost(r)

CreateODAGLink(r, a) ==
    IF EnsureAuthenticated(a) THEN SendAuth(r, "create") ELSE SendPost(r)

\* the required-field checks of createCompleteODAGLink
CheckFields(r, a) ==
    IF r.opts.selectionAppId = "" \/ r.opts.templateAppId = ""
    THEN ProvisionCatch(r, IF legacy
            THEN <<"Missing required fields: Either provide selectionAppId/templateAppId OR selectionAppName/templateAppName">>
            ELSE <<"Missing required fields: selectionAppId and templateAppId are required">>)
    ELSE IF r.opts.linkName = ""
    THEN ProvisionCatch(r, <<"Missing required field: ", "linkName">>)
    ELSE IF r.opts.rowEstExpr = ""
    THEN ProvisionCatch(r, <<"Missing required field: ", "rowEstExpr">>)
    ELSE ValidateAppId(r, a, "sel")

\* createCompleteODAGLink up to its first pending await
CreateCompleteODAGLink(o, a) ==
    LET r == [IdleCall EXCEPT !.kind = "provision", !.opts = o]
    IN  IF EnsureAuthenticated(a) THEN SendAuth(r, "top") ELSE CheckFields(r, a)

\* the validity checks after both lookups, then the creation call
CheckValid(r, a) ==
    IF ~r.sel.valid
    THEN ProvisionCatch(r, <<"Selection app validation failed: ">> \o r.sel.error)
    ELSE IF ~r.tmpl.valid
    THEN ProvisionCatch(r, <<"Template app validation failed: ">> \o r.tmpl.error)
    ELSE CreateODAGLink(r, a)

\* validateAppId returned v: the caller goes on
AfterValidate(r, a, v) ==
    CASE r.stage = "sel" -> ValidateAppId([r EXCEPT !.sel = v], a, "tmpl")
      [] r.stage = "tmpl" -> CheckValid([r EXCEPT !.tmpl = v], a)
      [] OTHER -> SendProbe(r)

\* mutant: every HTTP error answer is taken as "not found"
ValidateCatchLenient(r, a, status, msg) ==
    IF status >= 400
    THEN AfterValidate(r, a, [valid |-> FALSE,
                              error |-> <<"App ID not found: ", StageAppId(r)>>])
    ELSE CallerCatch(r, <<"Failed to validate app ID ", StageAppId(r), ": ">> \o msg)

\* catch (error) of validateAppId
ValidateCatch(r, a, status, msg) ==
    IF status = 404
    THEN AfterValidate(r, a, [valid |-> FALSE,
                              error |-> <<"App ID not found: ", StageAppId(r)>>])
    ELSE CallerCatch(r, <<"Failed to validate app ID ", StageAppId(r), ": ">> \o msg)

\* the answer to the lookup GET arrives in validateAppId
ValidateAppIdResponse(r, a, ans) ==
    IF Is2xx(ans.status)
    THEN IF ans.hasId
         THEN AfterValidate(r, a, [valid |-> TRUE,
                                   name |-> RemoteApp(StageAppId(r)).name,
                                   id |-> RemoteApp(StageAppId(r)).id,
                                   published |-> RemoteApp(StageAppId(r)).published])
         ELSE ValidateCatch(r, a, 0, <<"App not found: ", StageAppId(r)>>)
    ELSE ValidateCatch(r, a, ans.status, AxiosMessage(ans.status))

\* mutant: the switch knows client errors and server errors only
PostErrorMessageCoarse(ans) ==
    IF ans.status < 500
    THEN <<"Bad Request: ", "Invalid ODAG configuration">>
    ELSE <<"Server Error: ", "Internal server error">>

\* the switch (status) of createODAGLink's catch
PostErrorMessage(ans) ==
    CASE ans.status = 400 ->
           <<"Bad Request: ", IF ans.dataMessage # "" THEN ans.dataMessage
                              ELSE "Invalid ODAG configuration">>
      [] ans.status = 401 ->
           <<"Unauthorized: Please check your authentication credentials">>
      [] ans.status = 403 -> <<"Forbidden: User may not have ODAG permissions">>
      [] ans.status = 404 ->
           <<"Not Found: ODAG service may not be running on port 9098">>
      [] ans.status = 405 ->
           <<"Method Not Allowed: Check ODAG service configuration and URL path">>
      [] ans.status = 500 ->
           <<"Server Error: ", IF ans.dataMessage # "" THEN ans.dataMessage
                               ELSE "Internal server error">>
      [] OTHER ->
           <<"HTTP ", ToString(ans.status), ": ">>
             \o (IF ans.dataMessage # "" THEN <<ans.dataMessage>>
                 ELSE AxiosMessage(ans.status))

MaxRetries == 3     \* maxRetries of config.js

\* mutant: a failed creation call is repeated up to maxRetries times
CreateCatchRetrying(r, hasResponse, ans, msg) ==
    IF r.nPost <= MaxRetries
    THEN SendPost(r)
    ELSE CallerCatch(r, <<"Failed to create ODAG link: ">> \o msg)

\* catch (error) of createODAGLink
CreateCatch(r, hasResponse, ans, msg) ==
    IF hasResponse
    THEN CallerCatch(r, PostErrorMessage(ans))
    ELSE CallerCatch(r, <<"Failed to create ODAG link: ">> \o msg)

\* authenticate() returned (whatever it returned) at the stage of r
AfterAuth(r, a) ==
    CASE r.stage = "top" -> CheckFields(r, a)
      [] r.stage \in {"sel", "tmpl", "tcval"} -> SendLookup(r, r.stage)
      [] r.stage = "create" -> SendPost(r)
      [] OTHER -> IF legacy THEN ValidateAppId(r, a, "tcval") ELSE SendProbe(r)

\* authenticate() threw msg at the stage of r
AuthThrow(r, a, msg) ==
    CASE r.stage \in {"top", "tc"} -> CallerCatch(r, msg)
      [] r.stage \in {"sel", "tmpl", "tcval"} -> ValidateCatch(r, a, 0, msg)
      [] OTHER -> CreateCatch(r, FALSE, [status |-> 0, dataMessage |-> ""], msg)

(***************************************************************************)
(* Engine protocol driver: the closure of addNavigationLinkToApp           *)
(***************************************************************************)
NullHandle == -2        \* let appHandle = null
UndefinedHandle == -3   \* a qReturn without qHandle
RootHandle == -1        \* handle: -1 of the OpenDoc request
NormalClosure == 1000   \* the code the 'close' handler accepts
NoStatusCode == 1005    \* the code of a close frame that carries none
HandshakeTimeoutMs == 10000     \* handshakeTimeout: 10000
ConnectionTimeoutMs == 15000    \* setTimeout(..., 15000)

Handles == {1, 7}
CloseCodes == {NormalClosure, NoStatusCode, 1006}
MsgIds == 1..(MaxMsgs + 1)

EngineMessages ==
    [kind : {"garbage"}, id : {1}, handle : {1}]
    \cup [kind : {"error", "noResult", "noReturn", "noHandle"}, id : MsgIds, handle : {1}]
    \cup [kind : {"result"}, id : MsgIds, handle : Handles]

\* mutant: the correlation ids are drawn from a counter shared by the sessions
NewSessionSharedIds ==
    [ws |-> "connecting", timer |-> TRUE,
     requestId |-> 1 + Cardinality({d \in Slots : sess[d].ws # "none"}),
     requests |-> <<>>, appHandle |-> NullHandle, settled |-> "pending",
     message |-> <<>>, sent |-> <<>>, nMsgs |-> 0, closeCode |-> 0,
     elapsed |-> 0, idle |-> 0]

\* new WebSocket(...), the three locals and the connection timer
NewSession ==
    [ws |-> "connecting", timer |-> TRUE, requestId |-> 1, requests |-> <<>>,
     appHandle |-> NullHandle, settled |-> "pending", message |-> <<>>,
     sent |-> <<>>, nMsgs |-> 0, closeCode |-> 0, elapsed |-> 0, idle |-> 0]

\* mutant: a later resolve or reject replaces the outcome
SettleLastWins(s, how, msg) == [s EXCEPT !.settled = how, !.message = msg]

\* resolve(...) / reject(...): only the first call settles the promise
Settle(s, how, msg) ==
    IF s.settled = "pending" THEN [s EXCEPT !.settled = how, !.message = msg] ELSE s

\* clearTimeout(connectionTimeout); the socket's handshake timer ends with
\* the handshake
StopTimers(s) == [s EXCEPT !.timer = FALSE, !.elapsed = 0, !.idle = 0]

\* mutant: ws.close() on an open socket takes no effect yet
WsCloseCallDeferred(s) ==
    IF s.ws = "connecting" THEN [s EXCEPT !.ws = "aborting"] ELSE s

\* ws.close(), called without a code: sends a close frame carrying no status
\* and starts the closing handshake, or aborts a pending opening handshake
WsCloseCall(s) ==
    CASE s.ws = "open" -> [s EXCEPT !.ws = "closing", !.closeCode = NoStatusCode]
      [] s.ws = "connecting" -> [s EXCEPT !.ws = "aborting"]
      [] OTHER -> s

\* mutant: a frame handed to a socket that is closing still goes out
WsSendWhileClosing(s, type, method, handle) ==
    [s EXCEPT !.requests = Append(@, type),
              !.sent = IF s.ws \in {"open", "closing"}
                       THEN Append(@, [handle |-> handle, method |-> method,
                                       id |-> s.requestId])
                       ELSE @,
              !.requestId = @ + 1]

\* mutant: the correlation id is not advanced after a send
WsSendReusingId(s, type, method, handle) ==
    [s EXCEPT !.requests = Append(@, type),
              !.sent = IF s.ws = "open"
                       THEN Append(@, [handle |-> handle, method |-> method,
                                       id |-> s.requestId])
                       ELSE @]

\* requests.set(requestId, type); ws.send(...); requestId++
\* (ws 8: send on a socket that is no longer open drops the frame silently)
WsSend(s, type, method, handle) ==
    [s EXCEPT !.requests = Append(@, type),
              !.sent = IF s.ws = "open"
                       THEN Append(@, [handle |-> handle, method |-> method,
                                       id |-> s.requestId])
                       ELSE @,
              !.requestId = @ + 1]

\* ws.on('open')
OnOpen(s) ==
    WsSend([StopTimers(s) EXCEPT !.ws = "open"], "openApp", "OpenDoc", RootHandle)

\* catch (error) of the 'message' handler
\* mutant: the decode error is reported and the socket left open
OnMessageCatchKeepingOpen(s, text) ==
    Settle(s, "rejected", <<"Failed to parse WebSocket response: ", text>>)

OnMessageCatch(s, text) ==
    Settle(WsCloseCall(s), "rejected", <<"Failed to parse WebSocket response: ", text>>)

\* requests.get(response.id)
RequestType(s, id) ==
    IF id \in 1..Len(s.requests) THEN s.requests[id] ELSE "undefined"

\* response.error.message of a response carrying an error field
ErrorText(m) == "remote error text"

\* mutant: an error response is reported with a text of the driver's own
OnErrorFieldGeneric(s, m) ==
    Settle(WsCloseCall(s), "rejected", <<"WebSocket error: ", "engine request failed">>)

\* if (response.error) { ws.close(); reject(...); return; }
OnErrorField(s, m) ==
    Settle(WsCloseCall(s), "rejected", <<"WebSocket error: ", ErrorText(m)>>)

\* ws.on('message')
OnMessage(s, m) ==
    IF m.kind = "garbage"
    THEN OnMessageCatch(s, "Unexpected token")
    ELSE IF m.kind = "error"
    THEN OnErrorField(s, m)
    ELSE CASE RequestType(s, m.id) = "openApp" ->
                IF m.kind \in {"noResult", "noReturn"}
                THEN OnMessageCatch(s, "Cannot read properties of undefined")
                ELSE LET h == IF m.kind = "result" THEN m.handle ELSE UndefinedHandle
                     IN  WsSend([s EXCEPT !.appHandle = h],
                                "createObject", "CreateObject", h)
           [] RequestType(s, m.id) = "createObject" ->
                WsSend(s, "save", "DoSave", s.appHandle)
           [] RequestType(s, m.id) = "save" ->
                Settle(WsCloseCall(s), "resolved",
                       <<"ODAG app link created and app saved">>)
           [] OTHER -> s

\* mutant: after an 'error' event the socket stays as it was
OnErrorLeavingOpen(s, text) ==
    Settle(StopTimers(s), "rejected", <<"WebSocket error: ", text>>)

\* ws.on('error'); the library then tears the socket down
OnError(s, text) ==
    Settle([StopTimers(s) EXCEPT !.ws = "destroyed"], "rejected",
           <<"WebSocket error: ", text>>)

\* ws.on('close')
\* the text of the error a premature closure is reported with
ClosedPrematurely(code, reason) ==
    <<"WebSocket closed with code ", ToString(code), ": ", reason>>

\* mutant: a closure without a status code counts as a normal one
OnCloseNoStatusNormal(s, code) ==
    LET t == [StopTimers(s) EXCEPT !.ws = "closed"]
    IN  IF code \notin {NormalClosure, NoStatusCode}
        THEN Settle(t, "rejected", ClosedPrematurely(code, ""))
        ELSE t

OnClose(s, code) ==
    LET t == [StopTimers(s) EXCEPT !.ws = "closed"]
    IN  IF code # NormalClosure
        THEN Settle(t, "rejected", ClosedPrematurely(code, ""))
        ELSE t

\* the connectionTimeout callback
OnConnectionTimeout(s) ==
    Settle(StopTimers(WsCloseCall(s)), "rejected",
           <<"WebSocket connection timeout">>)

\* addNavigationLinkWithFallbacks (legacy) rethrows the driver's error wrapped
NavErrorMessage(msg) ==
    IF legacy THEN <<"Failed to create ODAG app link: ">> \o msg ELSE msg

\* mutant: a failed navigation leg falls through to the outer catch
NavContinueBareFailure(r, s, t) ==
    IF r.pc = "navWait" /\ s.settled = "pending" /\ t.settled # "pending"
    THEN IF t.settled = "resolved"
         THEN Returned(r, SuccessResult(r))
         ELSE ProvisionCatch(r, NavErrorMessage(t.message))
    ELSE r

\* mutant: a failed navigation leg deletes the link it created
NavContinueRollingBack(r, s, t) ==
    IF r.pc = "navWait" /\ s.settled = "pending" /\ t.settled # "pending"
    THEN IF t.settled = "resolved"
         THEN Returned(r, SuccessResult(r))
         ELSE ProvisionCatch([r EXCEPT !.reqs =
                                 Issue(@, RestRequest("odag", "DELETE", r.link), 1)],
                             NavErrorMessage(t.message))
    ELSE r

\* the await on addNavigationLinkToApp resumes when the promise settles
NavContinue(r, s, t) ==
    IF r.pc = "navWait" /\ s.settled = "pending" /\ t.settled # "pending"
    THEN IF t.settled = "resolved"
         THEN Returned(r, SuccessResult(r))
         ELSE Returned(r, PartialResult(r, NavErrorMessage(t.message)))
    ELSE r

\* the 2xx branch of createODAGLink and the call of addNavigationLinkToApp
AfterCreate(r, id) ==
    [r EXCEPT !.link = id, !.pc = "navWait", !.stage = "nav", !.nSock = @ + 1,
              !.reqs = Issue(@, SocketRequest(r.opts.selectionAppId), 1)]

\* mutant: the flat body is looked at before the nested objectDef
CreateODAGLinkResponseFlatFirst(r, ans, data) ==
    IF Is2xx(ans.status)
    THEN IF "id" \in DOMAIN data
         THEN AfterCreate(r, data.id)
         ELSE IF "objectDef" \in DOMAIN data /\ "id" \in DOMAIN data.objectDef
         THEN AfterCreate(r, data.objectDef.id)
         ELSE CreateCatch(r, FALSE, ans, <<"Failed to create ODAG link - no ID returned">>)
    ELSE CreateCatch(r, ans.status # 0, ans, AxiosMessage(ans.status))

\* the answer to the creation POST arrives in createODAGLink
CreateODAGLinkResponse(r, ans, data) ==
    IF Is2xx(ans.status)
    THEN IF "objectDef" \in DOMAIN data /\ "id" \in DOMAIN data.objectDef
         THEN AfterCreate(r, data.objectDef.id)
         ELSE IF "id" \in DOMAIN data
         THEN AfterCreate(r, data.id)
         ELSE CreateCatch(r, FALSE, ans, <<"Failed to create ODAG link - no ID returned">>)
    ELSE IF ans.status # 0
    THEN CreateCatch(r, TRUE, ans, AxiosMessage(ans.status))
    ELSE CreateCatch(r, FALSE, ans, AxiosMessage(ans.status))

(***************************************************************************)
(* Initial state                                                           *)
(***************************************************************************)
\* the state after construction, with the given call slots
InitWith(slots, keys) ==
    /\ legacy \in BOOLEAN
    /\ xrfKey \in keys
    /\ authenticated = FALSE
    /\ call = [c \in slots |-> IdleCall]
    /\ sess = [c \in slots |-> NoSession]
    /\ links = <<>>

\* one call on a fresh instance
Init == InitWith({1}, Keys)

\* two calls on a fresh instance, free to overlap
InitPair == InitWith({1, 2}, {GenerateXrfKey(FirstPicks)})

(***************************************************************************)
(* Actions                                                                 *)
(***************************************************************************)
\* an awaited REST call of the call resumes: n answers have been consumed
Answered(r, n) == [r EXCEPT !.answered = @ + n]

\* a caller invokes createCompleteODAGLink(options)
Provision(c, o) ==
    /\ call[c].pc = "idle"
    /\ call' = [call EXCEPT ![c] = CreateCompleteODAGLink(o, authenticated)]
    /\ UNCHANGED <<legacy, xrfKey, authenticated, sess, links>>

\* a caller invokes testConnection(): authenticate() is called unconditionally
TestConnection(c) ==
    /\ call[c].pc = "idle"
    /\ call' = [call EXCEPT ![c] = SendAuth([IdleCall EXCEPT !.kind = "test"], "tc")]
    /\ UNCHANGED <<legacy, xrfKey, authenticated, sess, links>>

\* mutant: an authentication answer other than 200 clears the flag
AuthenticatedAfterClearing(a, status) == status = 200

\* if (authResponse.status === 200) { this.authenticated = true; ... }
AuthenticatedAfter(a, status) == IF status = 200 THEN TRUE ELSE a

\* the answer to GET /qrs/about arrives in authenticate()
AuthResponse(c, status) ==
    /\ call[c].pc = "authWait"
    /\ authenticated' = AuthenticatedAfter(authenticated, status)
    /\ LET r == [Answered(call[c], 1) EXCEPT !.authFailed = TRUE]
       IN  call' = [call EXCEPT ![c] =
             IF status = 200
             THEN AfterAuth(Answered(call[c], 1), TRUE)
             ELSE IF Is2xx(status)
             THEN AfterAuth(r, authenticated)
             ELSE IF legacy /\ status \in {401, 403}
             THEN [Answered(call[c], 1) EXCEPT !.pc = "altWait"]
             ELSE AuthThrow(r, authenticated,
                            <<"Authentication failed: ">> \o AxiosMessage(status))]
    /\ UNCHANGED <<legacy, xrfKey, sess, links>>

\* tryAlternativeAuth (legacy) has tried its methods in order; method k was the
\* first to answer 200, k = 0 when none did
AltAuthResponse(c, k) ==
    /\ call[c].pc = "altWait"
    /\ LET n == IF k = 0 THEN 3 ELSE k
           r == [Answered(call[c], n) EXCEPT !.nAuth = @ + n,
                    !.reqs = Issue(@, RestRequest("qrs", "GET", "about"), n)]
       IN  IF k > 0
           THEN /\ authenticated' = TRUE
                /\ call' = [call EXCEPT ![c] = AfterAuth(r, TRUE)]
           ELSE /\ UNCHANGED authenticated
                /\ call' = [call EXCEPT ![c] =
                              AfterAuth([r EXCEPT !.authFailed = TRUE], authenticated)]
    /\ UNCHANGED <<legacy, xrfKey, sess, links>>

\* the answer to GET /qrs/app/{id} arrives in validateAppId
LookupResponse(c, ans) ==
    /\ call[c].pc = "lookupWait"
    /\ call' = [call EXCEPT ![c] =
                  ValidateAppIdResponse(Answered(call[c], 1), authenticated, ans)]
    /\ UNCHANGED <<legacy, xrfKey, authenticated, sess, links>>

\* the link service handles POST /v1/links and its answer (or none) arrives
PostResponse(c, ans) ==
    /\ call[c].pc = "postWait"
    /\ LET id == ToString(Len(links) + 1)
           r == CreateODAGLinkResponse(Answered(call[c], 1), ans,
                                       ResponseData(ans.shape, id))
       IN  /\ links' = IF ans.committed
                       THEN Append(links, [id |-> id, by |-> c,
                                           status |-> ans.status, shape |-> ans.shape])
                       ELSE links
           /\ call' = [call EXCEPT ![c] = r]
           /\ sess' = [sess EXCEPT ![c] = IF r.pc = "navWait" THEN NewSession ELSE @]
    /\ UNCHANGED <<legacy, xrfKey, authenticated>>

\* the answer to the GET /v1/links probe arrives in testConnection
ProbeResponse(c, status) ==
    /\ call[c].pc = "probeWait"
    /\ call' = [call EXCEPT ![c] =
                  Returned([Answered(call[c], 1) EXCEPT !.probe =
                              IF Is2xx(status) THEN "ok" ELSE "failed"],
                           TestReport)]
    /\ UNCHANGED <<legacy, xrfKey, authenticated, sess, links>>

\* a socket event: the handler runs, then the awaiting call if the promise settled
SocketStep(c, t) ==
    /\ sess' = [sess EXCEPT ![c] = t]
    /\ call' = [call EXCEPT ![c] = NavContinue(call[c], sess[c], t)]
    /\ UNCHANGED <<legacy, xrfKey, authenticated, links>>

WsOpen(c) ==
    /\ sess[c].ws = "connecting"
    /\ SocketStep(c, OnOpen(sess[c]))

\* a 'message' event, for sessions of at most n inbound messages
WsMessageUpTo(c, m, n) ==
    /\ sess[c].ws \in {"open", "closing"}
    /\ sess[c].nMsgs < n
    /\ SocketStep(c, OnMessage([sess[c] EXCEPT !.nMsgs = @ + 1], m))

WsMessage(c, m) == WsMessageUpTo(c, m, MaxMsgs)

WsError(c) ==
    /\ sess[c].ws \in {"connecting", "open", "closing", "aborting"}
    /\ SocketStep(c, OnError(sess[c], "socket error text"))

WsClose(c, code) ==
    /\ \/ sess[c].ws \in {"open", "closing"}
       \/ sess[c].ws = "destroyed" /\ code = 1006
    /\ SocketStep(c, OnClose(sess[c], code))

\* the time until the next timer of a pending handshake is due
NextDue(s) ==
    IF HandshakeTimeoutMs - s.idle < ConnectionTimeoutMs - s.elapsed
    THEN HandshakeTimeoutMs - s.idle
    ELSE ConnectionTimeoutMs - s.elapsed

\* time passes while the handshake is pending, up to the next due timer;
\* activity: bytes arrived on the socket meanwhile
Elapse(c, activity) ==
    /\ sess[c].ws = "connecting" /\ sess[c].timer
    /\ NextDue(sess[c]) > 0
    /\ sess' = [sess EXCEPT ![c] =
                  [@ EXCEPT !.elapsed = @ + NextDue(sess[c]),
                            !.idle = IF activity THEN 0 ELSE @ + NextDue(sess[c])]]
    /\ UNCHANGED <<legacy, xrfKey, authenticated, call, links>>

\* the socket stayed idle for handshakeTimeout: the library aborts the
\* handshake and emits 'error'
HandshakeTimeout(c) ==
    /\ sess[c].ws = "connecting"
    /\ sess[c].idle >= HandshakeTimeoutMs
    /\ SocketStep(c, OnError(sess[c], "Opening handshake has timed out"))

\* the connectionTimeout timer fires
WsTimeout(c) ==
    /\ sess[c].timer
    /\ sess[c].ws = "connecting"
    /\ sess[c].elapsed >= ConnectionTimeoutMs
    /\ SocketStep(c, OnConnectionTimeout(sess[c]))

Next ==
    \/ \E c \in Slots, o \in LinkRequests : Provision(c, o)
    \/ \E c \in Slots : TestConnection(c)
    \/ \E c \in Slots, status \in AuthStatuses : AuthResponse(c, status)
    \/ \E c \in Slots, k \in 0..3 : AltAuthResponse(c, k)
    \/ \E c \in Slots, ans \in LookupAnswers : LookupResponse(c, ans)
    \/ \E c \in Slots, ans \in PostAnswers : PostResponse(c, ans)
    \/ \E c \in Slots, status \in ProbeStatuses : ProbeResponse(c, status)
    \/ \E c \in Slots : WsOpen(c)
    \/ \E c \in Slots, m \in EngineMessages : WsMessage(c, m)
    \/ \E c \in Slots : WsError(c)
    \/ \E c \in Slots, code \in CloseCodes : WsClose(c, code)
    \/ \E c \in Slots : WsTimeout(c)
    \/ \E c \in Slots, activity \in BOOLEAN : Elapse(c, activity)
    \/ \E c \in Slots : HandshakeTimeout(c)

Spec == Init /\ [][Next]_vars

(***************************************************************************)
(* Two overlapping calls against remote services that answer every         *)
(* request of the provisioning path successfully; the link-service probe   *)
(* of testConnection may still fail.                                       *)
(***************************************************************************)
ValidRequests ==
    {o \in LinkRequests : o.linkName # "" /\ o.rowEstExpr # ""
                           /\ o.selectionAppId # "" /\ o.templateAppId # ""}
HealthyLookupAnswers == {ans \in LookupAnswers : ans.hasId}
HealthyPostAnswers == {ans \in PostAnswers : ans.shape \in {"nested", "flat"}}

\* the engine confirms the request sent last
HealthyEngineMessages(s) ==
    {m \in EngineMessages : m.kind = "result" /\ m.id = s.requestId - 1}

NextPair ==
    \/ \E c \in Slots, o \in ValidRequests : Provision(c, o)
    \/ \E c \in Slots : TestConnection(c)
    \/ \E c \in Slots : AuthResponse(c, 200)
    \/ \E c \in Slots, ans \in HealthyLookupAnswers : LookupResponse(c, ans)
    \/ \E c \in Slots, ans \in HealthyPostAnswers : PostResponse(c, ans)
    \/ \E c \in Slots, status \in ProbeStatuses : ProbeResponse(c, status)
    \/ \E c \in Slots : WsOpen(c)
    \/ \E c \in Slots : \E m \in HealthyEngineMessages(sess[c]) : WsMessage(c, m)
    \/ \E c \in Slots, code \in CloseCodes : WsClose(c, code)

SpecPair == InitPair /\ [][NextPair]_vars

(***************************************************************************)
(* Two overlapping provision calls whose engine sessions may fail: the     *)
(* engine answers the request sent last with a result or with an error,    *)
(* the socket may close with any code and the connection timer may fire.   *)
(***************************************************************************)
CorrelatedEngineMessages(s) ==
    {m \in EngineMessages : m.kind \in {"result", "error"} /\ m.id = s.requestId - 1}

NestedPostAnswers == {ans \in PostAnswers : ans.shape = "nested"}

NextSessions ==
    \/ \E c \in Slots, o \in ValidRequests : Provision(c, o)
    \/ \E c \in Slots : AuthResponse(c, 200)
    \/ \E c \in Slots, ans \in HealthyLookupAnswers : LookupResponse(c, ans)
    \/ \E c \in Slots, ans \in NestedPostAnswers : PostResponse(c, ans)
    \/ \E c \in Slots : WsOpen(c)
    \/ \E c \in Slots : \E m \in CorrelatedEngineMessages(sess[c]) : WsMessage(c, m)
    \/ \E c \in Slots, code \in CloseCodes : WsClose(c, code)
    \/ \E c \in Slots : WsTimeout(c)
    \/ \E c \in Slots, activity \in BOOLEAN : Elapse(c, activity)
    \/ \E c \in Slots : HandshakeTimeout(c)

SpecSessions == InitPair /\ [][NextSessions]_vars

(***************************************************************************)
(* Two calls, free to overlap, whose authentication requests may fail;     *)
(* the lookups succeed and the link service refuses the creation, so that  *)
(* no engine session is opened.                                            *)
(***************************************************************************)
RefusedPostAnswers == {ans \in PostAnswers : ans.status = 503 /\ ans.dataMessage = ""}

NextAuth ==
    \/ \E c \in Slots, o \in ValidRequests : Provision(c, o)
    \/ \E c \in Slots : TestConnection(c)
    \/ \E c \in Slots, status \in AuthStatuses : AuthResponse(c, status)
    \/ \E c \in Slots, k \in 0..3 : AltAuthResponse(c, k)
    \/ \E c \in Slots, ans \in HealthyLookupAnswers : LookupResponse(c, ans)
    \/ \E c \in Slots, ans \in RefusedPostAnswers : PostResponse(c, ans)
    \/ \E c \in Slots, status \in ProbeStatuses : ProbeResponse(c, status)

SpecAuth == InitPair /\ [][NextAuth]_vars

(***************************************************************************)
(* One provision call whose REST calls all succeed and whose engine        *)
(* session is unconstrained and one message longer: long enough for a      *)
(* message to arrive after the save request was registered and the driver  *)
(* has settled.                                                            *)
(***************************************************************************)
InitDriver == InitWith({1}, {GenerateXrfKey(FirstPicks)})

NextDriver ==
    \/ \E c \in Slots, o \in ValidRequests : Provision(c, o)
    \/ \E c \in Slots : AuthResponse(c, 200)
    \/ \E c \in Slots, ans \in HealthyLookupAnswers : LookupResponse(c, ans)
    \/ \E c \in Slots, ans \in NestedPostAnswers : PostResponse(c, ans)
    \/ \E c \in Slots : WsOpen(c)
    \/ \E c \in Slots, m \in EngineMessages : WsMessageUpTo(c, m, MaxLateMsgs)
    \/ \E c \in Slots : WsError(c)
    \/ \E c \in Slots, code \in CloseCodes : WsClose(c, code)
    \/ \E c \in Slots : WsTimeout(c)
    \/ \E c \in Slots, activity \in BOOLEAN : Elapse(c, activity)
    \/ \E c \in Slots : HandshakeTimeout(c)

SpecDriver == InitDriver /\ [][NextDriver]_vars

(***************************************************************************)
(* One call whose request carries any subset of the three policy blocks,   *)
(* followed up to the creation POST.                                       *)
(***************************************************************************)
\* the blocks a caller may supply: an empty array or one entry of its own
PolicyValues(f) ==
    CASE f = "rowEstRange" ->
           {<<>>, <<[context |-> "Sales_*", lowBound |-> 10, highBound |-> 1000]>>}
      [] f = "appRetentionTime" ->
           {<<>>, <<[context |-> "User_*", minutes |-> 60]>>}
      [] OTHER ->
           {<<>>, <<[context |-> "User_*", formatString |-> <<"Generated">>]>>}

PolicyOverrides ==
    UNION {{ov \in [S -> UNION {PolicyValues(f) : f \in PolicyBlocks}] :
               \A f \in S : ov[f] \in PolicyValues(f)} : S \in SUBSET PolicyBlocks}

PolicyRequests == {o @@ ov : o \in ValidRequests, ov \in PolicyOverrides}

NextPayload ==
    \/ \E c \in Slots, o \in PolicyRequests : Provision(c, o)
    \/ \E c \in Slots : AuthResponse(c, 200)
    \/ \E c \in Slots, ans \in HealthyLookupAnswers : LookupResponse(c, ans)

SpecPayload == Init /\ [][NextPayload]_vars

(***************************************************************************)
(* Vocabulary of the properties                                            *)
(***************************************************************************)
Done(c) == call[c].pc = "done"
IsProvision(c) == call[c].kind = "provision"
IsTest(c) == call[c].kind = "test"

IsSuccess(res) ==
    /\ "success" \in DOMAIN res /\ res.success
    /\ "partial" \notin DOMAIN res
    /\ "odagLinkId" \in DOMAIN res
IsPartial(res) ==
    /\ "success" \in DOMAIN res /\ res.success
    /\ "partial" \in DOMAIN res /\ res.partial
    /\ "odagLinkId" \in DOMAIN res /\ res.odagLinkId # ""
IsFailure(res) ==
    /\ "success" \in DOMAIN res /\ ~res.success
    /\ "error" \in DOMAIN res /\ res.error # <<>>

\* the text msg contains the value id
NamesId(msg, id) == \E i \in 1..Len(msg) : msg[i] = id
IsSuffix(suf, msg) ==
    /\ Len(suf) <= Len(msg)
    /\ SubSeq(msg, Len(msg) - Len(suf) + 1, Len(msg)) = suf

\* validateAppId returned { valid: false, ... } for the id
SelInvalid(c) == ~call[c].sel.valid /\ call[c].sel.error # <<>>
TmplInvalid(c) == ~call[c].tmpl.valid /\ call[c].tmpl.error # <<>>

\* the link resources the link service committed for the POST of call c
LinksOf(c) == {i \in 1..Len(links) : links[i].by = c}
\* ... among them those whose 2xx answer carried the id in an accepted shape
AnsweredLinksOf(c) ==
    {i \in LinksOf(c) : Is2xx(links[i].status) /\ links[i].shape # "none"}

\* the requests call c has issued: lookups, creation POSTs, engine sockets
Lookups(c) ==
    {q \in BagToSet(call[c].reqs) : q.svc = "qrs" /\ q.target # "about"}
CreationPosts(c) ==
    {q \in BagToSet(call[c].reqs) : q.svc = "odag" /\ q.method = "POST"}
EngineSockets(c) == {q \in BagToSet(call[c].reqs) : q.svc = "engine"}

MissingField(o) ==
    o.linkName = "" \/ o.rowEstExpr = "" \/ o.selectionAppId = "" \/ o.templateAppId = ""

(***************************************************************************)
(* C1: when validation of the selection or of the template application id  *)
(* returns an invalid result, the call issues no creation POST and returns *)
(* a total failure whose error text names the offending id.                *)
(***************************************************************************)
C1_InvalidAppAborts ==
    \A c \in Slots :
        IsProvision(c) /\ (SelInvalid(c) \/ TmplInvalid(c)) =>
            /\ call[c].nPost = 0
            /\ Done(c) =>
                 /\ IsFailure(call[c].result)
                 /\ \/ SelInvalid(c)
                       /\ NamesId(call[c].result.error, call[c].opts.selectionAppId)
                    \/ TmplInvalid(c)
                       /\ NamesId(call[c].result.error, call[c].opts.templateAppId)

(***************************************************************************)
(* C2: when link creation succeeded and the navigation leg failed, the     *)
(* call returns PartialSuccess with the created link id, both resolved     *)
(* names, the navigation error message and a non-empty list of manual      *)
(* remediation steps.                                                      *)
(***************************************************************************)
C2_PartialCarriesRemediation ==
    \A c \in Slots :
        IsProvision(c) /\ sess[c].settled = "rejected" =>
            /\ Done(c)
            /\ IsPartial(call[c].result)
            /\ \E i \in LinksOf(c) : call[c].result.odagLinkId = links[i].id
            /\ call[c].result.selectionAppName = RemoteApp(call[c].opts.selectionAppId).name
            /\ call[c].result.templateAppName = RemoteApp(call[c].opts.templateAppId).name
            /\ IsSuffix(sess[c].message, call[c].result.navigationLinkError)
            /\ "manualSteps" \in DOMAIN call[c].result
            /\ Len(call[c].result.manualSteps) > 0

(***************************************************************************)
(* C3 (as claimed): a call that returns a total failure has created no     *)
(* link resource at the link service, whatever the shape or arrival of     *)
(* the creation response.                                                  *)
(***************************************************************************)
C3_FailureMeansNothingCreated ==
    \A c \in Slots :
        IsProvision(c) /\ Done(c) /\ IsFailure(call[c].result) => LinksOf(c) = {}

(***************************************************************************)
(* C3 (amended): a call that returns a total failure has received no 2xx   *)
(* creation response carrying a server-issued id; a call that received     *)
(* one returns Success or PartialSuccess carrying that id.                 *)
(***************************************************************************)
C3_FailureMeansNoIdReceived ==
    \A c \in Slots :
        IsProvision(c) /\ Done(c) =>
            /\ IsFailure(call[c].result) => AnsweredLinksOf(c) = {}
            /\ \A i \in AnsweredLinksOf(c) :
                 /\ call[c].outcome = "returned"
                 /\ IsSuccess(call[c].result) \/ IsPartial(call[c].result)
                 /\ call[c].result.odagLinkId = links[i].id

\* a created link whose navigation leg failed was reported
C3_Witness ==
    \E c \in Slots :
        /\ IsProvision(c) /\ Done(c) /\ AnsweredLinksOf(c) # {}
        /\ sess[c].settled = "rejected"
        /\ IsPartial(call[c].result)

(***************************************************************************)
(* C4: when the navigation leg is confirmed (the driver resolved after the *)
(* three engine steps), the call returns Success whose odagLinkId is the   *)
(* id the creation call returned and whose names are those the two lookups *)
(* returned.                                                               *)
(***************************************************************************)
C4_SuccessCarriesIdAndNames ==
    \A c \in Slots :
        IsProvision(c) /\ sess[c].settled = "resolved" =>
            /\ Done(c)
            /\ call[c].outcome = "returned"
            /\ IsSuccess(call[c].result)
            /\ \E i \in AnsweredLinksOf(c) : call[c].result.odagLinkId = links[i].id
            /\ call[c].result.selectionAppName = RemoteApp(call[c].opts.selectionAppId).name
            /\ call[c].result.templateAppName = RemoteApp(call[c].opts.templateAppId).name

\* a call whose three engine steps were sent and confirmed has returned
C4_Witness ==
    \E c \in Slots :
        /\ IsProvision(c) /\ Done(c) /\ sess[c].settled = "resolved"
        /\ Len(sess[c].sent) = 3
        /\ ~MissingField(call[c].opts)

(***************************************************************************)
(* C5: a request lacking linkName, rowEstExpr, selectionAppId or           *)
(* templateAppId fails fast with a missing-field failure and issues no     *)
(* remote call at all, also on an instance that has not authenticated.     *)
(***************************************************************************)
C5_MissingFieldIssuesNoRemoteCall ==
    \A c \in Slots :
        IsProvision(c) /\ MissingField(call[c].opts) =>
            /\ call[c].nAuth = 0 /\ call[c].nLookup = 0
            /\ call[c].nPost = 0 /\ call[c].nSock = 0
            /\ Done(c) =>
                 /\ IsFailure(call[c].result)
                 /\ call[c].result.error[1] \in
                      {"Missing required field: ",
                       "Missing required fields: selectionAppId and templateAppId are required",
                       "Missing required fields: Either provide selectionAppId/templateAppId OR selectionAppName/templateAppName"}

(***************************************************************************)
(* C6: when an authentication probe of the call does not succeed, the call *)
(* returns Failure and issues no lookup, no creation call and no engine    *)
(* session.                                                                *)
(***************************************************************************)
C6_AuthFailureIsFatal ==
    \A c \in Slots :
        IsProvision(c) /\ call[c].authFailed =>
            /\ call[c].nLookup = 0 /\ call[c].nPost = 0 /\ call[c].nSock = 0
            /\ Done(c) => IsFailure(call[c].result)

(***************************************************************************)
(* C7: createCompleteODAGLink never throws; a call that has returned       *)
(* yields exactly one of Success, PartialSuccess and Failure.              *)
(***************************************************************************)
C7_ProvisionNeverThrows ==
    \A c \in Slots :
        IsProvision(c) /\ Done(c) =>
            /\ call[c].outcome = "returned"
            /\ "success" \in DOMAIN call[c].result
            /\ Cardinality({k \in {"success", "partial", "failure"} :
                   \/ k = "success" /\ IsSuccess(call[c].result)
                   \/ k = "partial" /\ IsPartial(call[c].result)
                   \/ k = "failure" /\ IsFailure(call[c].result)}) = 1

\* all three outcomes occur: here a failure raised inside a callee
C7_Witness ==
    \E c \in Slots :
        /\ IsProvision(c) /\ Done(c) /\ IsFailure(call[c].result)
        /\ call[c].nPost = 1

(***************************************************************************)
(* C8: testConnection never throws, and an internal error, authentication  *)
(* failure included, is converted into {success: false, error: message}.   *)
(***************************************************************************)
C8_TestConnectionReportsErrors ==
    \A c \in Slots :
        IsTest(c) /\ Done(c) =>
            /\ call[c].outcome = "returned"
            /\ call[c].authFailed => IsFailure(call[c].result)

(***************************************************************************)
(* C9: the report of testConnection reflects the reachability of the link  *)
(* service: a report obtained with it unreachable differs from one         *)
(* obtained with it reachable.                                             *)
(***************************************************************************)
C9_ReportReflectsLinkService ==
    \A a, b \in Slots :
        /\ IsTest(a) /\ Done(a) /\ call[a].probe = "ok"
        /\ IsTest(b) /\ Done(b) /\ call[b].probe = "failed"
        => call[a].result # call[b].result

(***************************************************************************)
(* C10: two calls with identical input on which every remote call          *)
(* succeeds each issue their own creation POST, and their outcomes carry   *)
(* the two distinct server-issued link ids.                                *)
(***************************************************************************)
C10_NotIdempotent ==
    \A a, b \in Slots :
        /\ a # b
        /\ IsProvision(a) /\ Done(a) /\ IsSuccess(call[a].result)
        /\ IsProvision(b) /\ Done(b) /\ IsSuccess(call[b].result)
        /\ call[a].opts = call[b].opts
        => /\ call[a].nPost = 1 /\ call[b].nPost = 1
           /\ Len(links) = 2
           /\ call[a].result.odagLinkId # call[b].result.odagLinkId
           /\ \E i \in LinksOf(a) : links[i].id = call[a].result.odagLinkId
           /\ \E i \in LinksOf(b) : links[i].id = call[b].result.odagLinkId

\* two calls with the same input have both returned Success
C10_Witness ==
    \E a, b \in Slots :
        /\ a # b
        /\ IsProvision(a) /\ Done(a) /\ IsSuccess(call[a].result)
        /\ IsProvision(b) /\ Done(b) /\ IsSuccess(call[b].result)
        /\ call[a].opts = call[b].opts

(***************************************************************************)
(* C11: no error path is retried: whatever the remote services answer, a   *)
(* provision call issues at most one creation POST, at most one lookup per *)
(* application id of its request and at most one engine socket; maxRetries *)
(* and retryDelay are never consulted.                                     *)
(***************************************************************************)
C11_NoAutomaticRetry ==
    \A c \in Slots :
        IsProvision(c) =>
            /\ call[c].nPost <= 1 /\ call[c].nSock <= 1 /\ call[c].nLookup <= 2
            /\ \A q \in Lookups(c) \cup CreationPosts(c) \cup EngineSockets(c) :
                 CopiesIn(q, call[c].reqs) = 1
            /\ \A q \in Lookups(c) :
                 q.target \in {call[c].opts.selectionAppId, call[c].opts.templateAppId}

\* a call whose creation POST was answered 500 has ended without a second POST
C11_Witness ==
    \E c \in Slots :
        /\ IsProvision(c) /\ Done(c) /\ IsFailure(call[c].result)
        /\ call[c].result.error[1] = "Server Error: "
        /\ Cardinality(Lookups(c)) = 2 /\ Cardinality(CreationPosts(c)) = 1

(***************************************************************************)
(* C12: once the creation call has succeeded, the call issues no further   *)
(* request to the link service (its only request there is the one POST),   *)
(* and the created resource stays at the link service, also when the       *)
(* navigation leg fails.                                                   *)
(***************************************************************************)
C12_NeverRollsBack ==
    \A c \in Slots :
        IsProvision(c) /\ call[c].link # "" =>
            /\ \A q \in BagToSet(call[c].reqs) :
                 q.svc = "odag" => q.method = "POST" /\ CopiesIn(q, call[c].reqs) = 1
            /\ \E i \in LinksOf(c) : links[i].id = call[c].link

\* a call whose navigation leg failed has returned, its link still in place
C12_Witness ==
    \E c \in Slots :
        /\ IsProvision(c) /\ Done(c) /\ call[c].link # ""
        /\ sess[c].settled = "rejected"
        /\ call[c].result.odagLinkId = call[c].link
        /\ \E i \in LinksOf(c) : links[i].id = call[c].link

(***************************************************************************)
(* C13: every Success outcome has success true, odagLinkId equal to the    *)
(* id the link service issued to the call, and navigationLinkMethod equal  *)
(* to "CreateObject".                                                      *)
(***************************************************************************)
C13_SuccessNamesMethod ==
    \A c \in Slots :
        IsProvision(c) /\ Done(c) /\ IsSuccess(call[c].result) =>
            /\ call[c].result.success
            /\ \E i \in LinksOf(c) : links[i].id = call[c].result.odagLinkId
            /\ "navigationLinkMethod" \in DOMAIN call[c].result
            /\ call[c].result.navigationLinkMethod = "CreateObject"

\* validateAppId threw its lookup error and the call of c ended on it
LookupThrew(r) ==
    /\ r.pc = "done" /\ IsFailure(r.result)
    /\ r.result.error[1] = "Failed to validate app ID "

(***************************************************************************)
(* C14: validateAppId turns a 404 answer into an invalid result naming the *)
(* id, without throwing; a 2xx answer carrying an id into the valid result *)
(* with the remote name, id and published flag; and every other non-2xx    *)
(* answer or transport failure into a thrown lookup error, leaving no      *)
(* invalid result behind.                                                  *)
(***************************************************************************)
C14_ValidateAppIdOutcomes ==
    [][\A c \in Slots, ans \in LookupAnswers :
         LookupResponse(c, ans) /\ IsProvision(c) =>
           LET id == StageAppId(call[c])
               v == IF call[c].stage = "sel" THEN call'[c].sel ELSE call'[c].tmpl
           IN  CASE ans.status = 404 ->
                      /\ ~v.valid /\ v.error # <<>> /\ NamesId(v.error, id)
                      /\ ~LookupThrew(call'[c])
                 [] Is2xx(ans.status) /\ ans.hasId ->
                      /\ v = [valid |-> TRUE, name |-> RemoteApp(id).name,
                              id |-> id, published |-> RemoteApp(id).published]
                      /\ ~LookupThrew(call'[c])
                 [] ~Is2xx(ans.status) /\ ans.status # 404 ->
                      /\ LookupThrew(call'[c])
                      /\ NamesId(call'[c].result.error, id)
                      /\ v = NoValidation
                 [] OTHER -> TRUE
      ]_vars

\* a selection lookup answered 404 gave an invalid result and the call went on
\* to the template lookup, which succeeded
C14_Witness ==
    \E c \in Slots :
        /\ IsProvision(c) /\ Done(c) /\ SelInvalid(c) /\ call[c].tmpl.valid
        /\ Cardinality(Lookups(c)) = 2

\* the error kind a caller reads off the message createODAGLink threw
ErrorKind(msg) ==
    CASE msg[1] = "Bad Request: " -> <<"InvalidConfiguration", "">>
      [] msg[1] = "Unauthorized: Please check your authentication credentials" ->
           <<"Unauthorized", "">>
      [] msg[1] = "Forbidden: User may not have ODAG permissions" -> <<"Forbidden", "">>
      [] msg[1] = "Not Found: ODAG service may not be running on port 9098" ->
           <<"ServiceUnavailable", "">>
      [] msg[1] = "Method Not Allowed: Check ODAG service configuration and URL path" ->
           <<"EndpointMisconfigured", "">>
      [] msg[1] = "Server Error: " -> <<"RemoteServerError", "">>
      [] msg[1] = "HTTP " -> <<"UnexpectedStatus", msg[2]>>
      [] OTHER -> <<"none", "">>

\* the kind the status of a failed creation call is to map to
KindOfStatus(status) ==
    CASE status = 400 -> <<"InvalidConfiguration", "">>
      [] status = 401 -> <<"Unauthorized", "">>
      [] status = 403 -> <<"Forbidden", "">>
      [] status = 404 -> <<"ServiceUnavailable", "">>
      [] status = 405 -> <<"EndpointMisconfigured", "">>
      [] status = 500 -> <<"RemoteServerError", "">>
      [] status = 0 -> <<"none", "">>
      [] OTHER -> <<"UnexpectedStatus", ToString(status)>>

(***************************************************************************)
(* C15: a creation call answered with a failing HTTP status ends in the    *)
(* error of that status: 400, 401, 403, 404, 405 and 500 each in a kind of *)
(* their own, any other status c in the kind carrying c; the kind can be   *)
(* read off the message alone, and a failure without an HTTP response is   *)
(* in none of the seven kinds.                                             *)
(***************************************************************************)
C15_StatusMapsToKind ==
    [][\A c \in Slots, ans \in PostAnswers :
         PostResponse(c, ans) /\ ~Is2xx(ans.status) =>
           /\ call'[c].pc = "done" /\ IsFailure(call'[c].result)
           /\ ErrorKind(call'[c].result.error) = KindOfStatus(ans.status)
      ]_vars

\* a creation call answered 503 has ended in the kind carrying 503
C15_Witness ==
    \E c \in Slots :
        /\ IsProvision(c) /\ Done(c) /\ IsFailure(call[c].result)
        /\ Cardinality(CreationPosts(c)) = 1
        /\ ErrorKind(call[c].result.error) = <<"UnexpectedStatus", "503">>

(***************************************************************************)
(* C16: a 2xx creation answer carrying the id in the nested objectDef, in  *)
(* the flat body, or in both, is a success whose resource id is the id the *)
(* link service issued (the nested one when both are present); a 2xx       *)
(* answer carrying an id in neither shape is a creation failure.           *)
(***************************************************************************)
C16_EitherShapeAccepted ==
    \A c \in Slots : \A i \in LinksOf(c) :
        IsProvision(c) /\ Is2xx(links[i].status) =>
            IF links[i].shape \in {"nested", "flat", "both"}
            THEN /\ call[c].link = links[i].id
                 /\ call[c].nSock = 1
                 /\ Done(c) => call[c].result.odagLinkId = links[i].id
            ELSE /\ call[c].link = "" /\ call[c].nSock = 0
                 /\ Done(c) /\ IsFailure(call[c].result)
                 /\ call[c].result.error =
                      <<"Failed to create ODAG link: ",
                        "Failed to create ODAG link - no ID returned">>

\* an answer carrying both a flat id and a nested one was taken by its nested id
C16_Witness ==
    \E c \in Slots : \E i \in LinksOf(c) :
        /\ IsProvision(c) /\ Done(c)
        /\ links[i].shape = "both" /\ call[c].result.odagLinkId = links[i].id

\* the default the payload is to carry for an omitted block
ClaimedDefault(f, linkName) ==
    CASE f = "rowEstRange" ->
           <<[context |-> "User_*", lowBound |-> 1, highBound |-> 500000]>>
      [] f = "appRetentionTime" -> <<[context |-> "User_*", minutes |-> 10080]>>
      [] OTHER ->
           <<[context |-> "User_*",
              formatString |-> <<linkName, " - $(user.name) - $(=Now())">>]>>

(***************************************************************************)
(* C17: in the payload of the creation POST each of rowEstRange,           *)
(* appRetentionTime and genAppName is the block the caller supplied,       *)
(* unchanged, or its default when the caller omitted it, whatever the      *)
(* caller did with the other two.                                          *)
(***************************************************************************)
C17_BlocksDefaultIndependently ==
    \A c \in Slots :
        call[c].payload # NoPayload =>
            /\ call[c].payload.name = call[c].opts.linkName
            /\ \A f \in PolicyBlocks :
                 call[c].payload.properties[f] =
                    IF f \in DOMAIN call[c].opts
                    THEN call[c].opts[f]
                    ELSE ClaimedDefault(f, call[c].opts.linkName)

\* a payload built from a request supplying one block and omitting two
C17_Witness ==
    \E c \in Slots :
        /\ call[c].pc = "postWait"
        /\ PolicyBlocks \cap DOMAIN call[c].opts = {"appRetentionTime"}
        /\ call[c].opts.linkName = "Sales Detail"
        /\ call[c].payload.properties.appRetentionTime
             = <<[context |-> "User_*", minutes |-> 60]>>
        /\ call[c].payload.properties.rowEstRange = DefaultRowEstRange
        /\ call[c].payload.properties.genAppName = DefaultGenAppName("Sales Detail")

Alphanumerics ==
    {"a", "b", "c", "d", "e", "f", "g", "h", "i", "j", "k", "l", "m",
     "n", "o", "p", "q", "r", "s", "t", "u", "v", "w", "x", "y", "z",
     "A", "B", "C", "D", "E", "F", "G", "H", "I", "J", "K", "L", "M",
     "N", "O", "P", "Q", "R", "S", "T", "U", "V", "W", "X", "Y", "Z",
     "0", "1", "2", "3", "4", "5", "6", "7", "8", "9"}

\* every request issued so far on the instance carries the key k
CarriedEverywhere(k) ==
    \A c \in Slots : \A q \in BagToSet(call[c].reqs) :
        /\ q.header = k
        /\ q.svc # "engine" => q.query = k

(***************************************************************************)
(* C18: the key of the instance is 16 alphanumeric characters, no          *)
(* operation changes it, every REST request issued carries it as xrfkey    *)
(* query parameter and as key header, and every engine socket carries it   *)
(* as key header.                                                          *)
(***************************************************************************)
C18_KeyFixedAndCarried ==
    /\ [](/\ Len(xrfKey) = 16
          /\ \A i \in 1..Len(xrfKey) : xrfKey[i] \in Alphanumerics
          /\ CarriedEverywhere(xrfKey))
    /\ [][xrfKey' = xrfKey]_vars

\* a call that issued the probe, both lookups, the POST and the socket
C18_Witness ==
    \E c \in Slots :
        /\ IsProvision(c) /\ Done(c)
        /\ Cardinality(Lookups(c)) = 2 /\ Cardinality(CreationPosts(c)) = 1
        /\ Cardinality(EngineSockets(c)) = 1
        /\ call[c].nAuth >= 1
        /\ CarriedEverywhere(xrfKey)

(***************************************************************************)
(* C19: no instance-level field changes after construction: under any      *)
(* interleaving of provision and testConnection calls the key and the      *)
(* authenticated flag keep the values the constructor gave them.           *)
(***************************************************************************)
C19_InstanceStateNeverMutated ==
    [][xrfKey' = xrfKey /\ authenticated' = authenticated]_vars

(***************************************************************************)
(* C20: the engine sessions of concurrent calls are isolated: the frames   *)
(* of each session carry the ids 1, 2, 3 of its own id space; the          *)
(* CreateObject a session sends targets the handle its own socket just     *)
(* delivered and its DoSave targets that same handle; and a message on one *)
(* socket changes neither the other session nor the other call.            *)
(***************************************************************************)
C20_SessionsIsolated ==
    /\ [](\A c \in Slots : \A i \in 1..Len(sess[c].sent) : sess[c].sent[i].id = i)
    /\ [][\A c \in Slots : \A m \in CorrelatedEngineMessages(sess[c]) :
            WsMessage(c, m) =>
              /\ \A d \in Slots \ {c} : sess'[d] = sess[d] /\ call'[d] = call[d]
              /\ \A i \in (Len(sess[c].sent) + 1)..Len(sess'[c].sent) :
                   LET f == sess'[c].sent[i]
                   IN  /\ f.method = "CreateObject" =>
                            m.kind = "result" /\ f.handle = m.handle
                       /\ f.method = "DoSave" =>
                            \E j \in 1..(i - 1) :
                                /\ sess[c].sent[j].method = "CreateObject"
                                /\ sess[c].sent[j].handle = f.handle
         ]_vars

\* one session was failed by an error message while the other, working on a
\* different handle, has sent its three frames and is still pending
C20_Witness ==
    \E a, b \in Slots :
        /\ a # b
        /\ sess[a].settled = "rejected" /\ sess[a].message[1] = "WebSocket error: "
        /\ Len(sess[a].sent) >= 2
        /\ sess[b].settled = "pending" /\ Len(sess[b].sent) = 3
        /\ sess[a].appHandle # sess[b].appHandle
        /\ sess[b].sent[2].handle = sess[b].appHandle

\* the frames of the given method that session s put on the wire
Frames(s, method) == {i \in 1..Len(s.sent) : s.sent[i].method = method}

(***************************************************************************)
(* C21: in every session the OpenDoc frame targets handle -1, and once an  *)
(* OpenDoc answer has returned the handle h (its CreateObject frame        *)
(* targets h), every CreateObject and DoSave frame sent afterwards in the  *)
(* session targets h.                                                      *)
(***************************************************************************)
C21_HandleThreading ==
    \A c \in Slots :
        /\ \A i \in Frames(sess[c], "OpenDoc") : sess[c].sent[i].handle = -1
        /\ \A i \in Frames(sess[c], "CreateObject") :
             sess[c].sent[i].handle \in Handles =>
               \A j \in Frames(sess[c], "CreateObject") \cup Frames(sess[c], "DoSave") :
                   j > i => sess[c].sent[j].handle = sess[c].sent[i].handle

(***************************************************************************)
(* C22: the frames of a session follow Connecting -> AppOpen ->            *)
(* ObjectCreated -> Saved: they are OpenDoc, then CreateObject, then       *)
(* DoSave, each sent once and in that order (no step skipped, no state     *)
(* entered twice), and the driver resolves only after all three.           *)
(***************************************************************************)
C22_StepsInOrder ==
    \A c \in Slots :
        /\ Len(sess[c].sent) <= 3
        /\ \A i \in 1..Len(sess[c].sent) :
             sess[c].sent[i].method = <<"OpenDoc", "CreateObject", "DoSave">>[i]
        /\ sess[c].settled = "resolved" => Len(sess[c].sent) = 3

ErrorMessages == {m \in EngineMessages : m.kind = "error"}

(***************************************************************************)
(* C23: when a response to a pending request carries an error field while  *)
(* the driver has not settled, the driver sends a close frame whose code   *)
(* is not the normal one and rejects with a message carrying the remote    *)
(* error text verbatim; the call reports that text.                        *)
(***************************************************************************)
C23_ErrorFieldRejects ==
    [][\A c \in Slots : \A m \in ErrorMessages :
         /\ sess[c].settled = "pending"
         /\ RequestType(sess[c], m.id) # "undefined"
         /\ WsMessage(c, m)
         => /\ sess'[c].settled = "rejected"
            /\ sess'[c].message[Len(sess'[c].message)] = "remote error text"
            /\ sess'[c].ws = "closing"
            /\ sess'[c].closeCode \notin {0, 1000}
            /\ sess'[c].sent = sess[c].sent
            /\ IsPartial(call'[c].result)
            /\ IsSuffix(<<"remote error text">>, call'[c].result.navigationLinkError)
      ]_vars

\* the answer to CreateObject carried an error field
C23_Witness ==
    \E c \in Slots :
        /\ sess[c].settled = "rejected"
        /\ sess[c].message = <<"WebSocket error: ", "remote error text">>
        /\ sess[c].ws = "closing" /\ sess[c].closeCode = 1005
        /\ Len(sess[c].sent) = 2 /\ Len(sess[c].requests) = 2
        /\ sess[c].nMsgs = 2

C25_ResolvesAndClosesNormally ==
    \A c \in Slots :
        sess[c].settled = "resolved" =>
            /\ sess[c].message = <<"ODAG app link created and app saved">>
            /\ RequestType(sess[c], 3) = "save"
            /\ sess[c].closeCode = NormalClosure

\* the messages that parse as JSON
ParsedMessages == {m \in EngineMessages : m.kind # "garbage"}

(***************************************************************************)
(* C26: an inbound message whose id has no entry in the pending-request    *)
(* table is ignored, with or without an error field: it changes nothing of *)
(* the session (no frame sent, socket not closed, driver neither resolved  *)
(* nor rejected) and nothing of the call.                                  *)
(***************************************************************************)
C26_UnknownIdIgnored ==
    [][\A c \in Slots : \A m \in ParsedMessages :
         /\ RequestType(sess[c], m.id) = "undefined"
         /\ WsMessage(c, m)
         => /\ sess'[c] = [sess[c] EXCEPT !.nMsgs = @ + 1]
            /\ call'[c] = call[c]
      ]_vars

\* the request type a method is registered under
TypeOf(method) ==
    CASE method = "OpenDoc" -> "openApp"
      [] method = "CreateObject" -> "createObject"
      [] method = "DoSave" -> "save"

(***************************************************************************)
(* C27: in every session the ids of the frames sent start at 1 and grow    *)
(* with each frame, so no two frames share an id; the pending-request      *)
(* table holds exactly the ids 1 .. requestId - 1, each assigned once, and *)
(* the frame sent under an id carries the method registered for it.  An id *)
(* of the table without a frame was assigned to a message handed to a      *)
(* socket that was no longer open.                                         *)
(***************************************************************************)
C27_IdsStrictlyIncrease ==
    \A c \in Slots :
        LET s == sess[c]
        IN  /\ s.ws # "none" => s.requestId = Len(s.requests) + 1
            /\ s.sent # <<>> => s.sent[1].id = 1
            /\ \A i, j \in 1..Len(s.sent) : i < j => s.sent[i].id < s.sent[j].id
            /\ \A i \in 1..Len(s.sent) :
                   RequestType(s, s.sent[i].id) = TypeOf(s.sent[i].method)
            /\ \A k \in 1..Len(s.requests) :
                   \/ Cardinality({i \in 1..Len(s.sent) : s.sent[i].id = k}) = 1
                   \/ /\ s.ws # "open"
                      /\ \A i \in 1..Len(s.sent) : s.sent[i].id < k

\* the answer to OpenDoc arrived twice: the second CreateObject frame got a
\* fresh id
C27_Witness ==
    \E c \in Slots :
        /\ sess[c].requests = <<"openApp", "createObject", "createObject">>
        /\ [i \in 1..Len(sess[c].sent) |-> sess[c].sent[i].id] = <<1, 2, 3>>
        /\ sess[c].requestId = 4

AbnormalCodes == CloseCodes \ {NormalClosure}

(***************************************************************************)
(* C28, as stated: every closure with a code other than 1000 that arrives  *)
(* before the save step was confirmed leaves the driver rejected with the  *)
(* premature-closure error carrying that code and reason.                  *)
(***************************************************************************)
C28_EarlyCloseRejectsAsClosed ==
    [][\A c \in Slots : \A code \in AbnormalCodes :
         /\ sess[c].settled # "resolved"
         /\ WsClose(c, code)
         => /\ sess'[c].settled = "rejected"
            /\ sess'[c].message = ClosedPrematurely(code, "")
      ]_vars

(***************************************************************************)
(* C28, amended: every closure with a code other than 1000 that arrives    *)
(* while the driver has not settled makes it reject with the               *)
(* premature-closure error carrying that code and reason, and the call     *)
(* reports that error; a driver that had already rejected keeps its first  *)
(* error.                                                                  *)
(***************************************************************************)
C28_CloseWhilePendingRejects ==
    [][\A c \in Slots : \A code \in AbnormalCodes :
         /\ sess[c].settled # "resolved"
         /\ WsClose(c, code)
         => IF sess[c].settled = "pending"
            THEN /\ sess'[c].settled = "rejected"
                 /\ sess'[c].message = ClosedPrematurely(code, "")
                 /\ IsPartial(call'[c].result)
                 /\ IsSuffix(ClosedPrematurely(code, ""),
                             call'[c].result.navigationLinkError)
            ELSE /\ sess'[c].settled = "rejected"
                 /\ sess'[c].message = sess[c].message
      ]_vars

\* the socket closed without a status while DoSave was awaiting its answer
C28_Witness ==
    \E c \in Slots :
        /\ sess[c].settled = "rejected"
        /\ sess[c].message = ClosedPrematurely(NoStatusCode, "")
        /\ sess[c].ws = "closed"
        /\ Frames(sess[c], "DoSave") # {}

(***************************************************************************)
(* C29: whenever one of the two timers set on the socket ends a handshake  *)
(* that has not completed, the driver rejects with the connection-timeout  *)
(* error 'WebSocket connection timeout' and with no other error.           *)
(***************************************************************************)
C29_StalledHandshakeIsConnectionTimeout ==
    [][\A c \in Slots :
         /\ sess[c].ws = "connecting"
         /\ HandshakeTimeout(c) \/ WsTimeout(c)
         => /\ sess'[c].settled = "rejected"
            /\ sess'[c].message = <<"WebSocket connection timeout">>
      ]_vars

GarbageMessages == {m \in EngineMessages : m.kind = "garbage"}

\* the driver was rejected for a payload that did not parse
DecodeRejected(s) ==
    /\ s.settled = "rejected"
    /\ s.message = <<"Failed to parse WebSocket response: ", "Unexpected token">>

ClosedOrClosing(s) == s.ws \in {"closing", "closed", "destroyed", "aborting"}

AuthRequests(r) == CopiesIn(RestRequest("qrs", "GET", "about"), r.reqs)

(***************************************************************************)
(* C32: once a call has authenticated successfully on the instance, no     *)
(* step of a provision call (createCompleteODAGLink and the validateAppId  *)
(* and createODAGLink calls it makes) issues an authentication request, in *)
(* particular none of a call started afterwards.                           *)
(***************************************************************************)
C32_AuthenticationReused ==
    [][authenticated =>
         \A c \in Slots :
             call'[c].kind = "provision" =>
                 /\ call'[c].nAuth = call[c].nAuth
                 /\ AuthRequests(call'[c]) = AuthRequests(call[c])
      ]_vars

\* a provision call started after another call had authenticated: it has
\* looked an application up without an authentication request of its own
C32_Witness ==
    \E c, d \in Slots :
        /\ c # d /\ IsProvision(c)
        /\ AuthRequests(call[d]) = 1
        /\ AuthRequests(call[c]) = 0
        /\ call[c].nLookup >= 1

RECURSIVE SumOver(_, _)
SumOver(f, S) ==
    IF S = {} THEN 0
    ELSE LET x == CHOOSE x \in S : TRUE IN f[x] + SumOver(f, S \ {x})

\* the authentication requests the provision calls have issued in total
ProvisionAuthRequests ==
    SumOver([c \in Slots |-> IF IsProvision(c) THEN AuthRequests(call[c]) ELSE 0], Slots)

(***************************************************************************)
(* C33: the provision calls issued on a freshly constructed instance,      *)
(* however they interleave, send at most one authentication request in     *)
(* total.                                                                  *)
(***************************************************************************)
C33_AuthenticatesOnce == ProvisionAuthRequests <= 1

\* the REST requests a call has issued
RestIssued(r) ==
    BagCardinality([q \in {q \in BagToSet(r.reqs) : q.svc # "engine"} |-> r.reqs[q]])

\* the REST requests of a call that have not been answered yet
RestInFlight(r) == RestIssued(r) - r.answered

(***************************************************************************)
(* C34: in a provision call at most one REST request is in flight at any   *)
(* time; the lookup of the template application is issued only after the   *)
(* lookup of the selection application has completed, and the creation     *)
(* POST only after both lookups have completed.                            *)
(***************************************************************************)
C34_RestCallsSequential ==
    \A c \in Slots :
        IsProvision(c) =>
            LET r == call[c]
            IN  /\ RestInFlight(r) \in {0, 1}
                /\ r.pc \in {"authWait", "lookupWait", "postWait"} => RestInFlight(r) = 1
                /\ r.nLookup <= 2 /\ r.nPost <= 1
                /\ r.nLookup = 2 => r.sel # NoValidation
                /\ r.nPost = 1 => /\ r.nLookup = 2
                                  /\ r.sel # NoValidation /\ r.tmpl # NoValidation
                                  /\ r.answered >= 2

\* the creation POST is in flight, both lookups answered
C34_Witness ==
    \E c \in Slots :
        /\ IsProvision(c) /\ call[c].pc = "postWait"
        /\ call[c].nLookup = 2 /\ call[c].nPost = 1
        /\ RestInFlight(call[c]) = 1
        /\ RestIssued(call[c]) >= 3

(***************************************************************************)
(* C35: in every engine session at most one CreateObject frame and at most *)
(* one DoSave frame are sent, whatever messages arrive, answers to an      *)
(* already answered id included.                                           *)
(***************************************************************************)
C35_AtMostOneCreateAndSave ==
    \A c \in Slots :
        /\ Cardinality(Frames(sess[c], "CreateObject")) <= 1
        /\ Cardinality(Frames(sess[c], "DoSave")) <= 1

(***************************************************************************)
(* C36: once the socket of a navigation-registration attempt has closed,   *)
(* with whatever code, the driver has settled (a closure before the save   *)
(* confirmation rejects it) and the provision call has returned.           *)
(***************************************************************************)
C36_SettledOnceClosed ==
    \A c \in Slots :
        sess[c].ws = "closed" =>
            /\ sess[c].settled \in {"resolved", "rejected"}
            /\ Done(c)

C38_FirstSettlementWins ==
    /\ [](\A c \in Slots :
            IsProvision(c) /\ sess[c].settled \in {"resolved", "rejected"} =>
                /\ Done(c)
                /\ IsSuccess(call[c].result) <=> sess[c].settled = "resolved"
                /\ IsPartial(call[c].result) <=> sess[c].settled = "rejected")
    /\ [][\A c \in Slots :
            sess[c].settled \in {"resolved", "rejected"} =>
                /\ sess'[c].settled = sess[c].settled
                /\ sess'[c].message = sess[c].message
                /\ call'[c].result = call[c].result
         ]_vars

\* the driver resolved, and the closure without status that answers its own
\* ws.close() has arrived: the result is still Success
C38_Witness ==
    \E c \in Slots :
        /\ sess[c].settled = "resolved" /\ sess[c].ws = "closed"
        /\ IsSuccess(call[c].result)

(***************************************************************************)
(* C39: every CreateObject and DoSave frame targets an integer handle that *)
(* an OpenDoc response carried; a driver that received no such handle has  *)
(* sent neither.                                                           *)
(***************************************************************************)
C39_CreateObjectNeedsHandle ==
    \A c \in Slots :
        \A i \in Frames(sess[c], "CreateObject") \cup Frames(sess[c], "DoSave") :
            sess[c].sent[i].handle \in Handles

\* a step in which an authentication answer with status 200 arrives
AuthenticationSucceeds ==
    \/ \E c \in Slots : AuthResponse(c, 200)
    \/ \E c \in Slots, k \in 1..3 : AltAuthResponse(c, k)

(***************************************************************************)
(* C40: the authenticated flag is false after construction, turns true     *)
(* only in a step in which an authentication answer with status 200        *)
(* arrives, and once true stays true through every later step, failed     *)
(* authentication answers of authenticate or testConnection included.      *)
(***************************************************************************)
C40_AuthenticatedMonotonic ==
    /\ ~authenticated
    /\ [][/\ authenticated => authenticated'
          /\ ~authenticated /\ authenticated' => AuthenticationSucceeds
        ]_vars

\* the flag is set and a testConnection call has had its authentication
\* request refused
C40_Witness ==
    \E c \in Slots :
        /\ authenticated
        /\ IsTest(c) /\ Done(c) /\ call[c].authFailed
        /\ IsFailure(call[c].result)

====
